---- MODULE Spec2Model ----
(***************************************************************************)
(* Incremental cross-reference graph of asciidoc-links: the graph store    *)
(* that parseFile maintains, the directory scan that drives it, the        *)
(* dangling-edge filter, and the refresh handler of the visualization.     *)
(*                                                                         *)
(* Strings are sequences of tokens; a token is one character or a run of   *)
(* characters holding no ".", no "/" and no white space.  A path string is *)
(* a record [scheme, abs, segs]: an optional URL scheme, whether it starts *)
(* with "/", and its "/"-separated segments.                               *)
(***************************************************************************)
EXTENDS Naturals, Integers, Sequences, FiniteSets, Bags, TLC

VARIABLES
  graph,          \* Graph: [nodes: Seq(Node), edges: Seq(Edge)]
  ops,            \* the parseFile invocations awaiting their read: a bag of
                  \* [path, scan], scan: launched by parseDirectory
  dir,            \* the parseDirectory invocation and the promises it collects
  nodesData,      \* graph.js: nodes currently displayed
  linksData,      \* graph.js: links currently displayed
  restarts,       \* graph.js: number of restart() calls made by refresh
  last,           \* the last operation that settled: [op, path, content], rep:
                  \* it repeats the one before, had: the path had a node
  contrib,        \* path -> the edges the last parse of that path appended
  arg,            \* the arguments of a call of an extractor of utils.ts
  ret,            \* what that call returned
  idToPath,       \* parsing.ts: the object behind idResolver
  learned,        \* key -> the path of the last learnFileId call that set it
  cur,            \* the continuation of parseFile that is running, statement
                  \* by statement
  serial,         \* the graph had every continuation run in one piece; in
                  \* a scan of a fixed file system, the graph it started from
  fs,             \* path -> the content its read resolves with
  twin            \* the parse that settled last was in flight together with
                  \* another parse of its path

vars == <<graph, ops, dir, nodesData, linksData, restarts,
          last, contrib, arg, ret, idToPath, learned, cur, serial, fs, twin>>

\* the state of the extractor calls, of the resolver, of the statement-wise
\* continuation and of the file system
fixedVars == <<arg, ret, idToPath, learned, cur, serial, fs>>
auxVars == <<fixedVars, twin>>

----------------------------------------------------------------------------
(* Bounds of the model *)

\* parseFile invocations that may be in flight at once
MaxOps == 2
\* cap on restart() calls counted
MaxRestarts == 2


----------------------------------------------------------------------------
(* Strings and paths *)

Dot == <<".">>
DotDot == <<".", ".">>

Str(abs, segs) == [scheme |-> "", abs |-> abs, segs |-> segs]

Last(s) == s[Len(s)]
Front(s) == SubSeq(s, 1, Len(s) - 1)

\* path.normalize (posix): drop empty and "." segments, resolve ".."
RECURSIVE NormSegs(_, _, _)
NormSegs(segs, acc, abs) ==
  IF segs = <<>> THEN acc
  ELSE LET s == Head(segs)
           rest == Tail(segs)
       IN IF s = <<>> \/ s = Dot THEN NormSegs(rest, acc, abs)
          ELSE IF s = DotDot
               THEN IF acc # <<>> /\ Last(acc) # DotDot
                    THEN NormSegs(rest, Front(acc), abs)
                    ELSE IF abs THEN NormSegs(rest, acc, abs)
                         ELSE NormSegs(rest, Append(acc, s), abs)
               ELSE NormSegs(rest, Append(acc, s), abs)

normalize(p) ==
  LET n == NormSegs(p.segs, <<>>, p.abs)
  IN [p EXCEPT !.segs = IF n = <<>> /\ ~p.abs THEN <<Dot>> ELSE n]

isAbsolute(p) == p.abs

\* path.extname, as a number of tokens of the base name: from the last "."
\* to the end, nothing when the base name has no "." other than a leading
\* one, or is ".."
extnameLen(p) ==
  IF p.segs = <<>> THEN 0
  ELSE LET base == Last(p.segs)
           dots == {i \in 1..Len(base) : base[i] = "."}
       IN IF dots = {} THEN 0
          ELSE LET k == CHOOSE i \in dots : \A j \in dots : j <= i
               IN IF k = 1 \/ base = DotDot THEN 0
                  ELSE Len(base) - k + 1

\* createHash("md5").update(s).digest("hex"): an injection of its input
md5(s) == <<"md5", s>>

id(p) ==
  LET base == Last(p.segs)
      pathWithoutExt ==
        IF p.segs = <<>> THEN p
        ELSE [p EXCEPT !.segs = Append(Front(p.segs),
                                       SubSeq(base, 1, Len(base) - extnameLen(p)))]
  IN md5(pathWithoutExt)

\* filePath.split(path.sep).slice(0, -1).join(path.sep)
parentDirectory(p) == [p EXCEPT !.segs = Front(p.segs)]

\* `${parentDirectory}/${link.target}`
joinTarget(parent, t) == [parent EXCEPT !.segs = parent.segs \o t.segs]

isExternalUrl(url) == url.scheme \in {"http://", "https://"}

----------------------------------------------------------------------------
(* utils.ts: the extractors.  A document is a sequence of lines; a line is *)
(* [kind, text, target, attrs]: kind "heading" is a line "=" \o text, the  *)
(* kinds "xref", "anchor", "link" and "include" are one match of the       *)
(* pattern of that name with its captured target and attribute list, and   *)
(* "text" is a line no pattern matches.                                    *)

\* null and undefined: values that are no string (a string is a sequence of
\* single characters)
Null == <<"null">>
Undefined == <<"undefined">>

Line(kind, text, target, attrs) ==
  [kind |-> kind, text |-> text, target |-> target, attrs |-> attrs]

\* the white space of String.prototype.trim that the documents hold
WhiteSpace == {" ", "\t"}

RECURSIVE trimLeft(_)
trimLeft(s) == IF s # <<>> /\ Head(s) \in WhiteSpace THEN trimLeft(Tail(s)) ELSE s

RECURSIVE trimRight(_)
trimRight(s) == IF s # <<>> /\ Last(s) \in WhiteSpace THEN trimRight(Front(s)) ELSE s

trim(s) == trimRight(trimLeft(s))

\* what is left after the " +" of a pattern has taken every leading space
RECURSIVE skipSpaces(_)
skipSpaces(s) == IF s # <<>> /\ Head(s) = " " THEN skipSpaces(Tail(s)) ELSE s

\* /^= +(.+)$/m on one line: at least one space, then at least one character
titleMatches(line) ==
  /\ line.kind = "heading"
  /\ Len(line.text) >= 2
  /\ Head(line.text) = " "

\* match[1]: the spaces are taken greedily, leaving (.+) at least one character
titleCapture(line) ==
  LET rest == skipSpaces(line.text)
  IN IF rest = <<>> THEN <<" ">> ELSE rest

\* Mutant of findAsciidocTitle: a title of exactly max characters is cut too
findAsciidocTitleCutAtMax(content, max) ==
  LET hits == SelectSeq(content, titleMatches)
  IN IF hits = <<>> THEN Null
     ELSE LET title == trim(titleCapture(Head(hits)))
          IN IF max > 0 /\ Len(title) >= max
             THEN SubSeq(title, 1, max) \o <<".", ".", ".">>
             ELSE title

findAsciidocTitle(content, max) ==
  LET hits == SelectSeq(content, titleMatches)
  IN IF hits = <<>> THEN Null
     ELSE LET title == trim(titleCapture(Head(hits)))
          IN IF max > 0 /\ Len(title) > max
             THEN SubSeq(title, 1, max) \o <<".", ".", ".">>
             ELSE title

\* tokens of an attribute list that are runs of word characters
WordTokens == {"tag", "tags", "lines", "my", "x", "leveloffset", "1"}

\* Mutant of hasAttr: /NAME=/ without the word boundary
hasAttrAnywhere(attributes, name) ==
  \E i \in 1..(Len(attributes) - 1) :
    attributes[i] = name /\ attributes[i + 1] = "="

\* /\bNAME=/ : NAME, then "=", with no word character right before NAME
hasAttr(attributes, name) ==
  \E i \in 1..(Len(attributes) - 1) :
    /\ attributes[i] = name
    /\ attributes[i + 1] = "="
    /\ (i = 1 \/ attributes[i - 1] \notin WordTokens)

hasPartialIncludeAttributes(attributes) ==
  IF attributes = <<>> THEN FALSE
  ELSE \E name \in {"tag", "tags", "lines"} : hasAttr(attributes, name)

RECURSIVE linksOf(_, _)
linksOf(lines, type) ==
  IF lines = <<>> THEN <<>>
  ELSE LET l == Head(lines)
       IN (IF isExternalUrl(l.target) THEN <<>>
           ELSE <<[target |-> l.target,
                   type |-> IF type = "include"
                            THEN (IF hasPartialIncludeAttributes(trim(l.attrs))
                                  THEN "include-partial" ELSE "include")
                            ELSE "link"]>>)
          \o linksOf(Tail(lines), type)

OfKind(content, kind) == SelectSeq(content, LAMBDA l : l.kind = kind)

\* Mutant of findAsciidocLinks: the link macros are collected before the
\* double-angle-bracket references
findAsciidocLinksLinkFirst(content) ==
  linksOf(OfKind(content, "xref"), "link")
    \o linksOf(OfKind(content, "link"), "link")
    \o linksOf(OfKind(content, "anchor"), "link")
    \o linksOf(OfKind(content, "include"), "include")

findAsciidocLinks(content) ==
  linksOf(OfKind(content, "xref"), "link")
    \o linksOf(OfKind(content, "anchor"), "link")
    \o linksOf(OfKind(content, "link"), "link")
    \o linksOf(OfKind(content, "include"), "include")

exists(g, nodeId) == \E i \in 1..Len(g.nodes) : g.nodes[i].id = nodeId

\* Mutant of filterNonExistingEdges: checks the source of an edge only
filterSourceOnly(g) ==
  [g EXCEPT !.edges = SelectSeq(g.edges, LAMBDA e : exists(g, e.source))]

filterNonExistingEdges(g) ==
  [g EXCEPT !.edges =
     SelectSeq(g.edges, LAMBDA e : exists(g, e.source) /\ exists(g, e.target))]

----------------------------------------------------------------------------
(* parsing.ts: the part of parseFile that runs after the read resumes *)

\* Mutant of findIndex: the node is never found
findIndexNever(nodes, filePath) == 0

\* graph.nodes.findIndex((node) => node.path === filePath); 0 stands for -1
findIndex(nodes, filePath) ==
  LET hits == {i \in 1..Len(nodes) : nodes[i].path = filePath}
  IN IF hits = {} THEN 0 ELSE CHOOSE i \in hits : \A j \in hits : i <= j

\* Mutant of splice1: nodes.splice(index), which removes to the end
spliceToEnd(s, index) == SubSeq(s, 1, index - 1)

\* nodes.splice(index, 1)
splice1(s, index) == SubSeq(s, 1, index - 1) \o SubSeq(s, index + 1, Len(s))

\* Mutant of resolveTarget: a relative target is not resolved against the
\* directory of the file
resolveTargetNoParent(filePath, link) ==
  normalize([link.target EXCEPT !.abs = TRUE])

\* the target path of one link of the file at filePath
resolveTarget(filePath, link) ==
  IF ~isAbsolute(link.target) THEN normalize(joinTarget(parentDirectory(filePath), link.target))
  ELSE normalize(link.target)

RECURSIVE newEdges(_, _)
newEdges(filePath, links) ==
  IF links = <<>> THEN <<>>
  ELSE <<[source |-> id(filePath),
          target |-> id(resolveTarget(filePath, Head(links))),
          type |-> Head(links).type]>>
       \o newEdges(filePath, Tail(links))

\* Mutant of removeOldEdges: the edges of every file are dropped
dropAllEdges(edges, filePath) == <<>>

\* Mutant of removeOldEdges: the old edges of the file are kept
keepOldEdges(edges, filePath) == edges

\* graph.edges.filter((edge) => edge.source !== id(filePath))
removeOldEdges(edges, filePath) ==
  SelectSeq(edges, LAMBDA e : e.source # id(filePath))

\* Mutant of applyParse: the node of a file that is parsed again is taken
\* out and appended anew
applyParseNodeAnew(g, filePath, content, max) ==
  LET title == findAsciidocTitle(content, max)
      index == findIndex(g.nodes, filePath)
  IN IF title = Null \/ title = <<>>
     THEN IF index # 0 THEN [g EXCEPT !.nodes = splice1(g.nodes, index)] ELSE g
     ELSE [nodes |-> Append(IF index # 0 THEN splice1(g.nodes, index) ELSE g.nodes,
                            [id |-> id(filePath), path |-> filePath,
                             label |-> title]),
           edges |-> removeOldEdges(g.edges, filePath)
                       \o newEdges(filePath, findAsciidocLinks(content))]

\* lines 26-61 of parseFile, on the content that was read
applyParse(g, filePath, content, max) ==
  LET title == findAsciidocTitle(content, max)
      index == findIndex(g.nodes, filePath)
  IN IF title = Null \/ title = <<>>
     THEN IF index # 0 THEN [g EXCEPT !.nodes = splice1(g.nodes, index)] ELSE g
     ELSE LET nodes == IF index # 0
                       THEN [g.nodes EXCEPT ![index].label = title]
                       ELSE Append(g.nodes, [id |-> id(filePath), path |-> filePath,
                                             label |-> title])
          IN [nodes |-> nodes,
              edges |-> removeOldEdges(g.edges, filePath)
                          \o newEdges(filePath, findAsciidocLinks(content))]

\* Mutant of onReadError: a file that cannot be read loses its node
onReadErrorDropNode(g, filePath) ==
  [g EXCEPT !.nodes = SelectSeq(g.nodes, LAMBDA n : n.path # filePath)]

\* a read that fails leaves parseFile before its first statement on the graph
onReadError(g, filePath) == g

----------------------------------------------------------------------------
(* The files and documents the operations are run on *)

File(name, ext) == Str(TRUE, <<<<"d">>, <<name, ".", ext>>>>)

PathA == File("a", "adoc")
PathA2 == File("a", "asciidoc")
PathB == File("b", "adoc")
\* /d/./b.adoc, which normalizes to PathB
PathBdot == Str(TRUE, <<<<"d">>, Dot, <<"b", ".", "adoc">>>>)
\* /d/.h.adoc, a hidden file
PathH == Str(TRUE, <<<<"d">>, <<".", "h", ".", "adoc">>>>)

InputPaths == {PathA, PathA2, PathB, PathBdot}
ScanFiles == {PathA, PathA2, PathB, PathH}
NormPaths == {normalize(p) : p \in InputPaths \cup ScanFiles}
NoPath == Str(FALSE, <<>>)

Rel(name) == Str(FALSE, <<<<name, ".", "adoc">>>>)
\* /d/c.adoc
AbsC == Str(TRUE, <<<<"d">>, <<"c", ".", "adoc">>>>)
\* http://e.adoc
External == [scheme |-> "http://", abs |-> FALSE, segs |-> <<<<"e", ".", "adoc">>>>]

Heading(text) == Line("heading", text, NoPath, <<>>)
Ref(kind, target, attrs) == Line(kind, <<>>, target, attrs)

\* no title; one reference
DocNone == <<Line("text", <<"x">>, NoPath, <<>>), Ref("xref", Rel("b"), <<>>)>>
\* "=  ": a heading line whose title is blank
DocBlank == <<Heading(<<" ", " ">>), Ref("xref", Rel("a"), <<>>)>>
\* title "T"; references a.adoc, b.adoc
DocAB == <<Heading(<<" ", "T", " ">>), Ref("xref", Rel("a"), <<>>),
           Ref("link", Rel("b"), <<>>)>>
\* ../d/c.adoc
RelUpC == Str(FALSE, <<DotDot, <<"d">>, <<"c", ".", "adoc">>>>)

\* title "Us"; references b.adoc once and c.adoc three times (first in the
\* text an include by tag, then twice as a link); an external link; a second
\* heading
DocBC == <<Ref("include", AbsC, <<"tag", "=", "x">>), Heading(<<" ", "U", "s">>),
           Ref("link", External, <<>>), Ref("link", RelUpC, <<>>),
           Ref("anchor", Rel("c"), <<>>), Ref("xref", Rel("b"), <<>>),
           Heading(<<" ", "T">>)>>

\* the documents parseFile reads in Spec, in DirSpec and in ViewSpec
Contents == {DocNone, DocBlank, DocAB, DocBC}
DirContents == {DocNone, DocAB}
ViewContents == {DocNone, DocAB}
ViewPaths == {PathA, PathB}
\* values of the setting titleMaxLength in force when a file is parsed
TitleMaxLengths == {1}

----------------------------------------------------------------------------
(* State *)

Op(path, scan) == [path |-> path, scan |-> scan]
OneOp(op) == SetToBag({op})
\* every invocation there can be
Ops == {Op(p, b) : p \in NormPaths, b \in BOOLEAN}
NoDir == [status |-> "idle", files |-> {}, applied |-> {}, failed |-> {}]
NoLast == [op |-> "none", path |-> NoPath, content |-> <<>>, rep |-> FALSE,
           had |-> FALSE]

\* no extractor call made, no continuation running
NoCall == [fn |-> "none"]
NoReturn == [returned |-> FALSE]
Returned(value) == [returned |-> TRUE, value |-> value]
NoCur == [pc |-> "idle"]

\* the extension was activated: an empty graph, nothing in flight
StoreInit ==
  /\ graph = [nodes |-> <<>>, edges |-> <<>>]
  /\ ops = EmptyBag
  /\ dir = NoDir
  /\ nodesData = <<>>
  /\ linksData = <<>>
  /\ restarts = 0
  /\ last = NoLast
  /\ contrib = [p \in NormPaths |-> <<>>]

CallInit == arg = NoCall /\ ret = NoReturn

\* let idToPath = {}
ResolverInit == idToPath = <<>> /\ learned = <<>>

StepInit == cur = NoCur /\ serial = [nodes |-> <<>>, edges |-> <<>>]

FsInit == fs = <<>> /\ twin = FALSE

Init == StoreInit /\ CallInit /\ ResolverInit /\ StepInit /\ FsInit

viewVars == <<nodesData, linksData, restarts>>

Reading == BagToSet(ops)
ScanOps == {o \in Reading : o.scan}

hasTitle(content, max) ==
  LET title == findAsciidocTitle(content, max) IN title # Null /\ title # <<>>

----------------------------------------------------------------------------
(* parseFile *)

\* parseFile(graph, p) up to its await: normalizes the path, issues the read
StartParse(p) ==
  /\ BagCardinality(ops) < MaxOps
  /\ ops' = ops (+) OneOp(Op(normalize(p), FALSE))
  /\ UNCHANGED <<graph, dir, viewVars, last, contrib, auxVars>>

\* the read of op o resolves with content c: the rest of parseFile runs, with
\* the configured titleMaxLength of that moment
resumeStore(o, c, titleMaxLength) ==
  /\ o \in Reading
  /\ LET filePath == o.path
     IN /\ graph' = applyParse(graph, filePath, c, titleMaxLength)
        /\ last' = [op |-> "parsed", path |-> filePath, content |-> c,
                    rep |-> last.op = "parsed" /\ last.path = filePath
                              /\ last.content = c,
                    had |-> findIndex(graph.nodes, filePath) # 0]
        /\ contrib' = [contrib EXCEPT ![filePath] =
                         IF hasTitle(c, titleMaxLength)
                         THEN newEdges(filePath, findAsciidocLinks(c)) ELSE <<>>]
        /\ dir' = IF o.scan THEN [dir EXCEPT !.applied = @ \cup {filePath}]
                  ELSE dir
  /\ ops' = ops (-) OneOp(o)
  /\ UNCHANGED viewVars

resume(o, c, titleMaxLength) ==
  resumeStore(o, c, titleMaxLength) /\ UNCHANGED auxVars

\* Mutant of ReadOk: once the scan has rejected, its other parses are dropped
ReadOkUnlessRejected(o, c, titleMaxLength) ==
  IF o.scan /\ dir.status = "rejected"
  THEN /\ o \in Reading
       /\ ops' = ops (-) OneOp(o)
       /\ UNCHANGED <<graph, dir, viewVars, last, contrib, auxVars>>
  ELSE resume(o, c, titleMaxLength)

ReadOk(o, c, titleMaxLength) == resume(o, c, titleMaxLength)

\* the read of op o rejects: parseFile rejects
ReadFail(o) ==
  /\ o \in Reading
  /\ LET filePath == o.path
     IN /\ graph' = onReadError(graph, filePath)
        /\ last' = [op |-> "readFailed", path |-> filePath, content |-> <<>>,
                    rep |-> FALSE, had |-> findIndex(graph.nodes, filePath) # 0]
        /\ dir' = IF o.scan THEN [dir EXCEPT !.failed = @ \cup {filePath}]
                  ELSE dir
  /\ ops' = ops (-) OneOp(o)
  /\ UNCHANGED <<viewVars, contrib, auxVars>>

\* filterNonExistingEdges(graph)
Filter ==
  /\ graph' = filterNonExistingEdges(graph)
  /\ last' = [NoLast EXCEPT !.op = "filtered"]
  /\ UNCHANGED <<ops, dir, viewVars, contrib, auxVars>>

----------------------------------------------------------------------------
(* parseDirectory, with parseFile as its fileCallback *)

\* path.basename(file.path).startsWith(".")
hiddenFile(file) == Head(Last(file.segs)) = "."

eligible(files) == {f \in files : ~hiddenFile(f)}

\* the for loop: one parseFile per eligible file, each run up to its await
launch(files) == SetToBag({Op(normalize(f), TRUE) : f \in eligible(files)})

\* Promise.allSettled in place of Promise.all: settles only once every
\* promise has settled
promiseAllSettled(d) ==
  IF d.applied \cup d.failed # eligible(d.files) THEN "awaiting"
  ELSE IF d.failed # {} THEN "rejected" ELSE "resolved"

\* await Promise.all(promises): rejects as soon as one promise has rejected,
\* resolves once all have resolved
promiseAll(d) ==
  IF d.failed # {} THEN "rejected"
  ELSE IF d.applied = eligible(d.files) THEN "resolved"
  ELSE "awaiting"

\* parseDirectory(graph, parseFile) up to its first await
ParseDirectory ==
  /\ dir.status \in {"idle", "resolved", "rejected"}
  /\ ScanOps = {}
  /\ dir' = [NoDir EXCEPT !.status = "listing"]
  /\ UNCHANGED <<graph, ops, viewVars, last, contrib, auxVars>>

\* findFiles resolves with files: the parses are launched
FindFilesDone(files) ==
  /\ dir.status = "listing"
  /\ BagCardinality(ops) + Cardinality(eligible(files)) <= MaxOps
  /\ ops' = ops (+) launch(files)
  /\ dir' = [dir EXCEPT !.status = "awaiting", !.files = files]
  /\ UNCHANGED <<graph, viewVars, last, contrib, auxVars>>

\* Promise.all settles: parseDirectory completes
DirSettle ==
  /\ dir.status = "awaiting"
  /\ promiseAll(dir) # "awaiting"
  /\ dir' = [dir EXCEPT !.status = promiseAll(dir)]
  /\ last' = [NoLast EXCEPT !.op = "scanSettled"]
  /\ UNCHANGED <<graph, ops, viewVars, contrib, auxVars>>

NextDir ==
  \/ ParseDirectory
  \/ \E files \in SUBSET ScanFiles : FindFilesDone(files)
  \/ \E o \in Ops, c \in DirContents, m \in TitleMaxLengths : ReadOk(o, c, m)
  \/ \E o \in Ops : ReadFail(o)
  \/ DirSettle

DirSpec == Init /\ [][NextDir]_vars

\* every read settles, and a settled Promise.all resumes parseDirectory
FairDirSpec ==
  /\ DirSpec
  /\ \A o \in Ops :
       WF_vars((\E c \in DirContents, m \in TitleMaxLengths : ReadOk(o, c, m))
               \/ ReadFail(o))
  /\ WF_vars(DirSettle)

----------------------------------------------------------------------------
(* One parseDirectory over a file system that does not change and whose    *)
(* reads all succeed                                                       *)

ScanContents == {DocNone, DocAB, DocBC}

\* the graph at activation, and the graph after parseFile of b.adoc
StartGraphs ==
  {[nodes |-> <<>>, edges |-> <<>>],
   applyParse([nodes |-> <<>>, edges |-> <<>>], PathB, DocAB, 1)}

ScanInit ==
  /\ fs \in [eligible(ScanFiles) -> ScanContents]
  /\ graph \in StartGraphs
  /\ serial = graph
  /\ cur = NoCur
  /\ ops = EmptyBag /\ dir = NoDir /\ last = NoLast
  /\ nodesData = <<>> /\ linksData = <<>> /\ restarts = 0
  /\ contrib = [p \in NormPaths |-> <<>>]
  /\ twin = FALSE
  /\ CallInit /\ ResolverInit

DistinctIds(files) == \A f, g \in files : id(f) = id(g) => f = g

NextScan ==
  \/ dir.status = "idle" /\ ParseDirectory
  \/ \E files \in SUBSET ScanFiles :
       DistinctIds(eligible(files)) /\ FindFilesDone(files)
  \/ \E o \in Ops, m \in TitleMaxLengths :
       o.path \in DOMAIN fs /\ ReadOk(o, fs[o.path], m)
  \/ DirSettle

ScanSpec == ScanInit /\ [][NextScan]_vars

----------------------------------------------------------------------------
(* graph.js: the refresh message of the visualization *)

\* a property read: undefined when the object has no such property
field(obj, name) == IF name \in DOMAIN obj THEN obj[name] ELSE Undefined

falsy(v) == v = Undefined \/ v = Null \/ v = <<>>

\* map.get(nodeId) after map.set(node.id, node.label) for each node in turn
mapGet(previous, nodeId) ==
  LET hits == {i \in 1..Len(previous) : previous[i].id = nodeId}
  IN IF hits = {} THEN Undefined
     ELSE field(previous[CHOOSE i \in hits : \A j \in hits : j <= i], "label")

\* sameNodes as the no-op check needs it: compares the label of the node
sameNodesByLabel(previous, next) ==
  /\ Len(next) = Len(previous)
  /\ \A i \in 1..Len(next) :
       LET found == mapGet(previous, next[i].id)
       IN ~(falsy(found) \/ found # field(next[i], "label"))

sameNodes(previous, next) ==
  /\ Len(next) = Len(previous)
  /\ \A i \in 1..Len(next) :
       LET found == mapGet(previous, next[i].id)
       IN ~(falsy(found) \/ found # field(next[i], "title"))

\* edge.type || 'link'
typeOrLink(edge) == IF "type" \in DOMAIN edge THEN edge.type ELSE "link"

\* `${source}-${target}-${type}`
edgeKey(source, target, type) == <<source, target, type>>

sameEdges(previous, next) ==
  /\ Len(next) = Len(previous)
  /\ LET set == {edgeKey(field(previous[i].source, "id"),
                         field(previous[i].target, "id"),
                         typeOrLink(previous[i])) : i \in 1..Len(previous)}
     IN \A i \in 1..Len(next) :
          edgeKey(next[i].source, next[i].target, typeOrLink(next[i])) \in set

\* the node that forceLink.links() puts in place of an id (the last with it)
nodeById(nodes, nodeId) ==
  nodes[CHOOSE i \in 1..Len(nodes) :
          /\ nodes[i].id = nodeId
          /\ \A j \in 1..Len(nodes) : nodes[j].id = nodeId => j <= i]

\* linksData after restart(): source and target are node objects
linked(nodes, edges) ==
  [i \in 1..Len(edges) |->
     [edges[i] EXCEPT !.source = nodeById(nodes, edges[i].source),
                      !.target = nodeById(nodes, edges[i].target)]]

\* the snapshot that is displayed and the one received show the same graph
RECURSIVE SeqBag(_)
SeqBag(s) == IF s = <<>> THEN EmptyBag ELSE SetToBag({Head(s)}) (+) SeqBag(Tail(s))

sameSnapshot(nodes, edges) ==
  /\ {<<n.id, n.label>> : n \in {nodes[i] : i \in 1..Len(nodes)}}
       = {<<n.id, n.label>> : n \in {nodesData[i] : i \in 1..Len(nodesData)}}
  /\ SeqBag([i \in 1..Len(edges) |->
               <<edges[i].source, edges[i].target, edges[i].type>>])
       = SeqBag([i \in 1..Len(linksData) |->
                   <<linksData[i].source.id, linksData[i].target.id,
                     linksData[i].type>>])

\* case "refresh", with the payload a snapshot of the graph without its
\* dangling edges
Refresh ==
  LET payload == filterNonExistingEdges(graph)
      nodes == payload.nodes
      edges == payload.edges
  IN /\ last' = [NoLast EXCEPT !.op = "refresh", !.rep = sameSnapshot(nodes, edges),
                                !.had = nodes # <<>>]
     /\ IF sameNodes(nodesData, nodes) /\ sameEdges(linksData, edges)
        THEN UNCHANGED viewVars
        ELSE /\ restarts < MaxRestarts
             /\ nodesData' = nodes
             /\ linksData' = linked(nodes, edges)
             /\ restarts' = restarts + 1
     /\ UNCHANGED <<graph, ops, dir, contrib, auxVars>>

NextView ==
  \/ \E p \in ViewPaths : StartParse(p)
  \/ \E o \in Ops, c \in ViewContents, m \in TitleMaxLengths : ReadOk(o, c, m)
  \/ Refresh

ViewSpec == Init /\ [][NextView]_vars

----------------------------------------------------------------------------
(* utils.ts: one call of findAsciidocLinks on a document *)

\* longest attribute list, in tokens
MaxAttrLen == 3
\* most lines of a document
MaxLines == 3

SeqsUpTo(S, n) == UNION {[1..k -> S] : k \in 0..n}

AttrTokens == {"tag", "tags", "lines", "my", "x", "=", ",", " "}
AttrLists == SeqsUpTo(AttrTokens, MaxAttrLen)

\* documents of one reference, of every form, with every attribute list
AttrDocs ==
  {<<Ref(kind, Rel("a"), attrs)>> :
     kind \in {"xref", "anchor", "link", "include"}, attrs \in AttrLists}

\* lines of documents that mix the forms
MixLines ==
  {Ref("xref", Rel("a"), <<>>), Ref("xref", Rel("b"), <<>>),
   Ref("anchor", Rel("b"), <<>>),
   Ref("link", Rel("a"), <<>>), Ref("link", External, <<>>),
   Ref("include", Rel("a"), <<>>), Ref("include", Rel("b"), <<"tag", "=", "x">>),
   Heading(<<" ", "T">>)}
MixDocs == SeqsUpTo(MixLines, MaxLines)

LinksInit ==
  /\ arg \in {[fn |-> "findAsciidocLinks", content |-> d] :
               d \in AttrDocs \cup MixDocs}
  /\ ret = NoReturn
  /\ StoreInit /\ ResolverInit /\ StepInit /\ FsInit

\* findAsciidocLinks(content) returns
CallFindAsciidocLinks ==
  /\ arg.fn = "findAsciidocLinks"
  /\ ~ret.returned
  /\ ret' = Returned(findAsciidocLinks(arg.content))
  /\ UNCHANGED <<graph, ops, dir, viewVars, last, contrib, arg,
                 idToPath, learned, cur, serial, fs, twin>>

\* lines 47-61 of parseFile for the file a.adoc, on the links returned
AppendLinks ==
  /\ arg.fn = "findAsciidocLinks"
  /\ ret.returned
  /\ last.op = "none"
  /\ graph' = [graph EXCEPT !.edges = graph.edges \o newEdges(PathA, ret.value)]
  /\ last' = [NoLast EXCEPT !.op = "appended", !.path = PathA]
  /\ UNCHANGED <<ops, dir, viewVars, contrib, auxVars>>

NextLinks == CallFindAsciidocLinks \/ AppendLinks

LinksSpec == LinksInit /\ [][NextLinks]_vars

----------------------------------------------------------------------------
(* utils.ts: one call of findAsciidocTitle on a document, under a setting  *)
(* of asciidoc-links.titleMaxLength                                       *)

\* longest text after the "=" of a heading line, in characters
MaxTextLen == 4
\* largest titleMaxLength configured
MaxSetting == 3

TitleChars == {" ", "\t", "T", "U"}
HeadingTexts == SeqsUpTo(TitleChars, MaxTextLen)
TextLine == Line("text", <<"x">>, NoPath, <<>>)

\* a heading line alone, after a line of text, and before a second heading
TitleDocs ==
  {<<>>, <<TextLine>>}
    \cup {<<Heading(t)>> : t \in HeadingTexts}
    \cup {<<TextLine, Heading(t)>> : t \in HeadingTexts}
    \cup {<<Heading(t), Heading(<<" ", "U">>)>> : t \in HeadingTexts}

Settings == (0 - 1)..MaxSetting

TitleInit ==
  /\ arg \in {[fn |-> "findAsciidocTitle", content |-> d, max |-> m] :
               d \in TitleDocs, m \in Settings}
  /\ ret = NoReturn
  /\ StoreInit /\ ResolverInit /\ StepInit /\ FsInit

\* findAsciidocTitle(content) returns, getTitleMaxLength() giving arg.max
CallFindAsciidocTitle ==
  /\ arg.fn = "findAsciidocTitle"
  /\ ~ret.returned
  /\ ret' = Returned(findAsciidocTitle(arg.content, arg.max))
  /\ UNCHANGED <<graph, ops, dir, viewVars, last, contrib, arg,
                 idToPath, learned, cur, serial, fs, twin>>

NextTitle == CallFindAsciidocTitle

TitleSpec == TitleInit /\ [][NextTitle]_vars

----------------------------------------------------------------------------
(* parsing.ts: idToPath, learnFileId and idResolver.  idToPath is an       *)
(* object literal: its own properties are the function idToPath, and a     *)
(* read of a key it does not own goes on to Object.prototype.              *)

\* undefined, and a member of Object.prototype, as values of a property read
NoEntry == [is |-> "undefined"]
ObjectPrototype ==
  [k \in {<<"constructor">>, <<"__proto__">>} |-> [is |-> "inherited", name |-> k]]

\* obj[key]
get(obj, key) ==
  IF key \in DOMAIN obj THEN obj[key]
  ELSE IF key \in DOMAIN ObjectPrototype THEN ObjectPrototype[key]
  ELSE NoEntry

\* obj[key] = value, value a string: the setter of "__proto__" ignores it
set(obj, key, value) ==
  IF key = <<"__proto__">> THEN obj ELSE (key :> value) @@ obj

idResolver(targetId) == get(idToPath, targetId)

\* path.basename(filePath)
basename(filePath) == IF filePath.segs = <<>> THEN <<>> ELSE Last(filePath.segs)

\* fileName.split(".").slice(0, -1).join("."): up to the last ".", nothing
\* when there is no "."
withoutLastSegment(fileName) ==
  LET dots == {i \in 1..Len(fileName) : fileName[i] = "."}
  IN IF dots = {} THEN <<>>
     ELSE SubSeq(fileName, 1, (CHOOSE i \in dots : \A j \in dots : j <= i) - 1)

\* the key of a file named without its extension, when it has one
keyWithoutExtension(fileName) ==
  IF \E i \in 1..Len(fileName) : fileName[i] = "."
  THEN withoutLastSegment(fileName) ELSE fileName

LearnPaths ==
  {Str(TRUE, <<<<"d">>, <<"a", ".", "adoc">>>>),
   Str(TRUE, <<<<"e">>, <<"a", ".", "adoc">>>>),
   Str(TRUE, <<<<"d">>, <<"a", ".", "asciidoc">>>>),
   Str(TRUE, <<<<"d">>, <<"a", ".", "b", ".", "adoc">>>>),
   Str(TRUE, <<<<"d">>, <<"README">>>>),
   Str(TRUE, <<<<"d">>, <<"constructor", ".", "adoc">>>>),
   Str(TRUE, <<<<"d">>, <<"__proto__", ".", "adoc">>>>)}

\* learnFileId(graph, filePath): it has no await, so it runs in one piece
LearnFileId(filePath) ==
  LET fileName == basename(filePath)
      fileNameWithoutExt == withoutLastSegment(fileName)
  IN /\ idToPath' = set(set(idToPath, fileName, filePath),
                        fileNameWithoutExt, filePath)
     /\ learned' = (keyWithoutExtension(fileName) :> filePath)
                      @@ (fileName :> filePath) @@ learned
     /\ UNCHANGED <<graph, ops, dir, viewVars, last, contrib, arg, ret,
                    cur, serial, fs, twin>>

NextResolver == \E filePath \in LearnPaths : LearnFileId(filePath)

ResolverSpec == Init /\ [][NextResolver]_vars

----------------------------------------------------------------------------
(* parsing.ts: the continuation of parseFile statement by statement.  A    *)
(* continuation runs on the one thread of the extension host: it gives the *)
(* thread up where it awaits, and nowhere else.                            *)

StepPaths == {PathA, PathA2, PathB}
StepContents == {DocNone, DocAB, DocBC}

Running(pc, filePath, content) ==
  [pc |-> pc, path |-> filePath, content |-> content]

\* Mutant of awaits: parseFile also awaits between the filter of line 44
\* and the loop of lines 50-61
awaitsBeforeAppend(pc) == pc \in {"read", "append"}

\* the positions of parseFile at which it awaits: the read of line 23
awaits(pc) == pc = "read"

\* the thread is free to run another handler or continuation
threadFree == cur = NoCur \/ awaits(cur.pc)

\* a call of parseFile, made by a handler that has the thread
StepStartParse(p) == threadFree /\ StartParse(p)

\* the read of op o resolves with content c: lines 24-41
StepResume(o, c, titleMaxLength) ==
  /\ threadFree /\ cur = NoCur
  /\ o \in Reading
  /\ ops' = ops (-) OneOp(o)
  /\ serial' = applyParse(serial, o.path, c, titleMaxLength)
  /\ LET filePath == o.path
         title == findAsciidocTitle(c, titleMaxLength)
         index == findIndex(graph.nodes, filePath)
     IN IF title = Null \/ title = <<>>
        THEN /\ graph' = IF index # 0
                         THEN [graph EXCEPT !.nodes = splice1(graph.nodes, index)]
                         ELSE graph
             /\ cur' = NoCur
        ELSE /\ graph' = [graph EXCEPT !.nodes =
                            IF index # 0
                            THEN [graph.nodes EXCEPT ![index].label = title]
                            ELSE Append(graph.nodes,
                                        [id |-> id(filePath), path |-> filePath,
                                         label |-> title])]
             /\ cur' = Running("filter", filePath, c)
  /\ UNCHANGED <<dir, viewVars, last, contrib, arg, ret, idToPath, learned, fs,
                 twin>>

\* line 44
StepRemoveEdges ==
  /\ cur.pc = "filter"
  /\ graph' = [graph EXCEPT !.edges = removeOldEdges(graph.edges, cur.path)]
  /\ cur' = [cur EXCEPT !.pc = "append"]
  /\ UNCHANGED <<ops, dir, viewVars, last, contrib, arg, ret, idToPath,
                 learned, serial, fs, twin>>

\* lines 47-61
StepAppendEdges ==
  /\ cur.pc = "append"
  /\ graph' = [graph EXCEPT !.edges =
                 graph.edges \o newEdges(cur.path, findAsciidocLinks(cur.content))]
  /\ cur' = NoCur
  /\ UNCHANGED <<ops, dir, viewVars, last, contrib, arg, ret, idToPath,
                 learned, serial, fs, twin>>

NextStep ==
  \/ \E p \in StepPaths : StepStartParse(p)
  \/ \E o \in Ops, c \in StepContents, m \in TitleMaxLengths : StepResume(o, c, m)
  \/ StepRemoveEdges
  \/ StepAppendEdges

StepSpec == Init /\ [][NextStep]_vars

----------------------------------------------------------------------------
(* Parses of a path that are in flight together *)

TwinPaths == {PathA, PathB}
TwinContents == {DocNone, DocAB, DocBC}

\* ReadOk, noting whether another parse of the path is in flight beside
\* this one, or was beside the one of the same path that settled just before
TwinReadOk(o, c, titleMaxLength) ==
  /\ resumeStore(o, c, titleMaxLength)
  /\ twin' = (\/ \E q \in BagToSet(ops (-) OneOp(o)) : q.path = o.path
              \/ last.op = "parsed" /\ last.path = o.path /\ twin)
  /\ UNCHANGED fixedVars

NextTwin ==
  \/ \E p \in TwinPaths : StartParse(p)
  \/ \E o \in Ops, c \in TwinContents, m \in TitleMaxLengths : TwinReadOk(o, c, m)

TwinSpec == Init /\ [][NextTwin]_vars

----------------------------------------------------------------------------
(* The graph store under any interleaving of parseFile calls *)

Next ==
  \/ \E p \in InputPaths : StartParse(p)
  \/ \E o \in Ops, c \in Contents, m \in TitleMaxLengths : ReadOk(o, c, m)
  \/ \E o \in Ops : ReadFail(o)
  \/ Filter

Spec == Init /\ [][Next]_vars

----------------------------------------------------------------------------
(* Vocabulary of the properties *)

Range(s) == {s[i] : i \in 1..Len(s)}

EdgesFrom(edges, source) == SelectSeq(edges, LAMBDA e : e.source = source)

NodeIds(nodes) == {n.id : n \in Range(nodes)}

\* the edges the references of content give a file at path p, in order
RefEdges(p, content) ==
  LET links == findAsciidocLinks(content)
  IN [i \in 1..Len(links) |->
        [source |-> id(p),
         target |-> id(IF links[i].target.abs THEN normalize(links[i].target)
                       ELSE normalize(Str(TRUE, Front(p.segs) \o links[i].target.segs))),
         type |-> links[i].type]]

Titled(content) == \E m \in TitleMaxLengths : hasTitle(content, m)

\* this step is the completion of a parseFile whose read succeeded
ParsedStep ==
  /\ last'.op = "parsed"
  /\ BagCardinality(ops') < BagCardinality(ops)

\* this step is the failure of a parseFile whose read failed
ReadFailedStep ==
  /\ last'.op = "readFailed"
  /\ BagCardinality(ops') < BagCardinality(ops)

Edge(from, to, type) == [source |-> md5(Str(TRUE, <<<<"d">>, <<from>>>>)),
                         target |-> md5(Str(TRUE, <<<<"d">>, <<to>>>>)),
                         type |-> type]

----------------------------------------------------------------------------
(* C1: re-parsing a file p (title present) leaves in graph.edges the edges  *)
(* that the last parse of every other file q # p appended, for all pairs   *)
(* of distinct paths, x.adoc and x.asciidoc included.                      *)
C1_OtherFilesUndisturbed ==
  [][(ParsedStep /\ Titled(last'.content)) =>
       \A q \in NormPaths \ {last'.path} :
         (SeqBag(contrib[q]) \sqsubseteq SeqBag(graph.edges))
           => (SeqBag(contrib[q]) \sqsubseteq SeqBag(graph'.edges))]_vars

(* C2: after parseFile(p) completes with a title, the edges whose source   *)
(* is id(p) are exactly one edge per extracted reference of the new        *)
(* content, in order, whatever edges with that source existed before.      *)
C2_EdgesAreTheReferences ==
  (last.op = "parsed" /\ Titled(last.content)) =>
    EdgesFrom(graph.edges, id(last.path)) = RefEdges(last.path, last.content)

\* a.adoc, whose id had the edges of {a, b}, was parsed with {b, c, c, c}
C2_Witness ==
  /\ last.op = "parsed" /\ last.path = PathA /\ last.content = DocBC
  /\ contrib[PathA2] = <<Edge("a", "a", "link"), Edge("a", "b", "link")>>
  /\ EdgesFrom(graph.edges, id(PathA))
       = <<Edge("a", "b", "link"), Edge("a", "c", "link"), Edge("a", "c", "link"),
           Edge("a", "c", "include-partial")>>

(* C3: parseFile(p) run twice in a row on unchanged content leaves the     *)
(* edges with source id(p) the same up to order, none accumulated, and the *)
(* node list unchanged.                                                    *)
C3_ReparseIdempotent ==
  [][(ParsedStep /\ last'.rep) =>
       /\ SeqBag(EdgesFrom(graph'.edges, id(last'.path)))
            = SeqBag(EdgesFrom(graph.edges, id(last'.path)))
       /\ graph'.nodes = graph.nodes]_vars

\* a titled document with references was parsed twice in a row
C3_Witness ==
  /\ last.op = "parsed" /\ last.rep /\ Titled(last.content)
  /\ Len(EdgesFrom(graph.edges, id(last.path))) >= 2

\* the edges of a sequence whose source and target are both in ids, in order
RECURSIVE Kept(_, _)
Kept(edges, ids) ==
  IF edges = <<>> THEN <<>>
  ELSE (IF Head(edges).source \in ids /\ Head(edges).target \in ids
        THEN <<Head(edges)>> ELSE <<>>) \o Kept(Tail(edges), ids)

(* C4: right after filterNonExistingEdges every edge has its source and    *)
(* its target among the node ids; the filter removes exactly the edges     *)
(* that lack one, keeps the others in order, and leaves the nodes alone.   *)
C4_FilterRestoresConsistency ==
  [][(last'.op = "filtered") =>
       /\ \A e \in Range(graph'.edges) :
            e.source \in NodeIds(graph'.nodes) /\ e.target \in NodeIds(graph'.nodes)
       /\ graph'.edges = Kept(graph.edges, NodeIds(graph.nodes))
       /\ graph'.nodes = graph.nodes]_vars

\* the filter ran on a.adoc's edges to a and c while b had no node: the edge
\* to a stayed, the one to c went
C4_Witness ==
  /\ last.op = "filtered"
  /\ \E p \in NormPaths :
       /\ Len(contrib[p]) >= 2
       /\ \E e \in Range(contrib[p]) : e \in Range(graph.edges)
       /\ \E e \in Range(contrib[p]) : e \notin Range(graph.edges)

(* C5: when parseFile(p) finds no title and a node with path p exists,     *)
(* exactly that node is removed and graph.edges is unchanged; when no node *)
(* with path p exists the graph is unchanged.                              *)
C5_NoTitleRemovesNodeOnly ==
  [][(ParsedStep /\ ~Titled(last'.content)) =>
       LET p == last'.path
           at == {i \in 1..Len(graph.nodes) : graph.nodes[i].path = p}
       IN /\ graph'.edges = graph.edges
          /\ IF at = {} THEN graph'.nodes = graph.nodes
             ELSE /\ Len(graph'.nodes) = Len(graph.nodes) - 1
                  /\ \A i \in 1..Len(graph.nodes) :
                       graph.nodes[i].path # p =>
                         graph'.nodes[i - Cardinality({j \in at : j < i})]
                           = graph.nodes[i]
                  /\ \A n \in Range(graph'.nodes) : n.path # p]_vars

\* b.adoc had a node and lost its title: its node is gone, a node after it
\* stays, its edges stay in place, dangling
C5_Witness ==
  /\ last.op = "parsed" /\ ~Titled(last.content) /\ last.had
  /\ last.path = PathB
  /\ graph.nodes # <<>>
  /\ \A n \in Range(graph.nodes) : n.path # PathB
  /\ \E e \in Range(graph.edges) : e.source = id(PathB)
  /\ \E e \in Range(graph.edges) : e.target = id(PathB) /\ e.source # id(PathB)

(* C6: if reading file p fails, parseFile(p) fails without mutating the    *)
(* graph: nodes and edges are exactly as before the call.                  *)
C6_ReadFailureLeavesGraph ==
  [][ReadFailedStep => graph' = graph]_vars

\* the read of a file that has a node and edges failed
C6_Witness ==
  /\ last.op = "readFailed" /\ last.had
  /\ \E n \in Range(graph.nodes) : n.path = last.path
  /\ EdgesFrom(graph.edges, id(last.path)) # <<>>

(* C7: parseDirectory completes (resolves or rejects) only once every      *)
(* per-file callback invocation it launched has settled, also when some    *)
(* invocations fail while others are in flight.                            *)
C7_ScanCompletesAfterAllSettle ==
  dir.status \in {"resolved", "rejected"} => ScanOps = {}

(* C8: a failure of one file's parse during parseDirectory does not abort  *)
(* the sibling parses: every other eligible file still runs its parse to   *)
(* completion (applied to the graph when its read succeeds).               *)
C8_SiblingsRunToCompletion ==
  \A f \in ScanFiles :
    (dir.status = "rejected" /\ f \in eligible(dir.files))
      ~> (f \in dir.applied \cup dir.failed)

\* after the scan rejected, a sibling's parse completed and its node and
\* edges are in the graph
C8_Witness ==
  /\ dir.status = "rejected" /\ dir.failed # {}
  /\ last.op = "parsed" /\ Titled(last.content)
  /\ last.path \in dir.applied
  /\ \E n \in Range(graph.nodes) : n.path = last.path
  /\ EdgesFrom(graph.edges, id(last.path)) = RefEdges(last.path, last.content)

(* C9: in every state reachable by any interleaving of parseFile calls,    *)
(* no two nodes of graph.nodes have the same path.                         *)
C9_NodePathsUnique ==
  \A i, j \in 1..Len(graph.nodes) :
    graph.nodes[i].path = graph.nodes[j].path => i = j

\* one parse of a path completed on its existing node while a second parse
\* of the same path is still in flight
C9_Witness ==
  /\ last.op = "parsed" /\ last.had /\ Titled(last.content)
  /\ \E o \in Reading : o.path = last.path
  /\ Len(graph.nodes) >= 2

(* C10: a refresh message whose snapshot has the node id-to-label mapping  *)
(* and the edge triples of the snapshot displayed is a no-op: restart() is *)
(* not invoked and nodesData/linksData are not replaced, also for          *)
(* non-empty graphs.                                                       *)
C10_NoOpRefreshSkipsRelayout ==
  [][(last'.op = "refresh" /\ last'.rep /\ last'.had) =>
       UNCHANGED <<nodesData, linksData, restarts>>]_vars

\* the include directives of a document that findAsciidocLinks keeps
Includes(content) ==
  SelectSeq(content, LAMBDA l : l.kind = "include" /\ ~isExternalUrl(l.target))

\* NAME= occurs in the attribute list, wherever
Contains(attrs, name) ==
  \E j \in 1..Len(attrs) : attrs[j] = name /\ j < Len(attrs) /\ attrs[j + 1] = "="

\* NAME= occurs where an attribute name starts: at the start of the list or
\* right after a character that is no letter, digit or "_"
ContainsAsName(attrs, name) ==
  \E j \in 1..Len(attrs) :
    /\ attrs[j] = name /\ j < Len(attrs) /\ attrs[j + 1] = "="
    /\ \A k \in 1..Len(attrs) : k = j - 1 => attrs[k] \in {"=", ",", " "}

\* the types of the references returned: "link" for the three link forms,
\* and for the include directives, in order, what partial(attrs) tells
TypesAre(partial(_)) ==
  LET inc == Includes(arg.content)
      n == Len(ret.value) - Len(inc)
  IN /\ n >= 0
     /\ \A i \in 1..n : ret.value[i].type = "link"
     /\ \A i \in 1..Len(inc) :
          ret.value[n + i].type = IF partial(inc[i].attrs) THEN "include-partial"
                            ELSE "include"

(* C11 as claimed: an include directive yields type include-partial if and *)
(* only if its attribute list contains tag=, tags= or lines= anywhere, a   *)
(* longer attribute name included, and include otherwise; the other three  *)
(* forms always yield link.                                                *)
C11_PartialIffSubstring ==
  (arg.fn = "findAsciidocLinks" /\ ret.returned) =>
    TypesAre(LAMBDA attrs : \E name \in {"tag", "tags", "lines"} :
                              Contains(attrs, name))

(* C11 amended: an include directive yields type include-partial if and    *)
(* only if its attribute list contains tag=, tags= or lines= at the start  *)
(* of a name (not right after a letter, digit or "_"), and include         *)
(* otherwise; the other three forms always yield link.                     *)
C11_PartialIffAttributeName ==
  (arg.fn = "findAsciidocLinks" /\ ret.returned) =>
    TypesAre(LAMBDA attrs : \E name \in {"tag", "tags", "lines"} :
                              ContainsAsName(attrs, name))

\* include::a.adoc[mytag=] came out as a full include
C11_Witness ==
  /\ arg.fn = "findAsciidocLinks"
  /\ arg.content = <<Ref("include", Rel("a"), <<"my", "tag", "=">>)>>
  /\ ret = Returned(<<[target |-> Rel("a"), type |-> "include"]>>)

\* the lines of a document that are a level-0 heading: "=", one space or
\* more, then at least one more character
HeadingLines(content) ==
  {i \in 1..Len(content) :
     /\ content[i].kind = "heading"
     /\ \E k \in 1..(Len(content[i].text) - 1) :
          \A j \in 1..k : content[i].text[j] = " "}

\* the text of a heading line without the white space around it
TitleOf(text) ==
  LET inked == {i \in 1..Len(text) : text[i] \notin {" ", "\t"}}
  IN IF inked = {} THEN <<>>
     ELSE SubSeq(text, CHOOSE i \in inked : \A j \in inked : i <= j,
                       CHOOSE i \in inked : \A j \in inked : j <= i)

(* C12: findAsciidocTitle returns none exactly when the text has no        *)
(* level-0 heading line; otherwise the title t of the first such line:     *)
(* with maximum m > 0 and t longer than m, the first m characters of t     *)
(* followed by "..."; t itself when t has m characters or fewer, and for   *)
(* every length when m <= 0.                                               *)
C12_TitleAndTruncation ==
  (arg.fn = "findAsciidocTitle" /\ ret.returned) =>
    LET hs == HeadingLines(arg.content)
        m == arg.max
    IN IF hs = {} THEN ret.value = Null
       ELSE LET first == CHOOSE i \in hs : \A j \in hs : i <= j
                t == TitleOf(arg.content[first].text)
            IN /\ ret.value # Null
               /\ (m > 0 /\ Len(t) > m) =>
                    ret.value = SubSeq(t, 1, m) \o <<".", ".", ".">>
               /\ (m > 0 /\ Len(t) <= m) => ret.value = t
               /\ (m <= 0) => ret.value = t

\* under a maximum of 2, the title "TU" of the first of two headings came
\* back whole
C12_Witness ==
  /\ arg.fn = "findAsciidocTitle" /\ arg.max = 2
  /\ arg.content = <<Heading(<<" ", " ", "T", "U">>), Heading(<<" ", "U">>)>>
  /\ ret = Returned(<<"T", "U">>)

\* under a maximum of 2, the title "TUT" came back as "TU..."
C12_WitnessCut ==
  /\ arg.fn = "findAsciidocTitle" /\ arg.max = 2
  /\ arg.content = <<TextLine, Heading(<<" ", "T", "U", "T">>)>>
  /\ ret = Returned(<<"T", "U", ".", ".", ".">>)

\* the keys asked of idResolver: those of the files, and some of no file
ResolverKeys ==
  UNION {{basename(p), withoutLastSegment(basename(p))} : p \in LearnPaths}
    \cup {<<>>, <<"b">>, <<"b", ".", "adoc">>}

(* C13: after any sequence of learnFileId calls, idResolver(key) is the    *)
(* path of the most recent call that registered key (the base name, or the *)
(* base name without its final extension segment) and none for a key that  *)
(* no call registered; a key once registered resolves ever after.          *)
C13_ResolvesLastLearned ==
  \A key \in ResolverKeys :
    idResolver(key) = IF key \in DOMAIN learned THEN learned[key] ELSE NoEntry

\* C13 for the keys that are no member of Object.prototype, of files whose
\* name has an extension
C13_ResolvesOrdinaryKeys ==
  (\A key \in DOMAIN learned : key # <<"README">>) =>
    \A key \in ResolverKeys \ (DOMAIN ObjectPrototype) :
      idResolver(key) = IF key \in DOMAIN learned THEN learned[key] ELSE NoEntry

(* C14: with several parseFile operations in flight, each suspended only   *)
(* at its read, whatever another operation or a reader can observe or act  *)
(* on is the graph that the updates made so far give when each is applied  *)
(* in one piece: never one with a source's old edges removed and the new   *)
(* ones not yet appended, or with the node updated and the edges not yet   *)
(* replaced, so no interleaving loses or duplicates an edge.               *)
C14_UpdateIsAtomic ==
  threadFree => graph = serial

\* a.adoc is between the removal of its old edges and the appending of the
\* new ones while another parse is in flight, and nothing else can run
C14_Witness ==
  /\ cur.pc = "append" /\ cur.path = PathA
  /\ ops # EmptyBag
  /\ EdgesFrom(serial.edges, id(PathA)) # <<>>
  /\ EdgesFrom(graph.edges, id(PathA)) = <<>>
  /\ Len(graph.edges) > 0
  /\ ~threadFree

\* the lines of a document that are a reference to a local document
RefLines(content) ==
  {i \in 1..Len(content) :
     /\ content[i].kind \in {"xref", "anchor", "link", "include"}
     /\ ~isExternalUrl(content[i].target)}

\* xref macros first, then double-angle-bracket references, then link
\* macros, then include directives
FormRank(kind) ==
  CASE kind = "xref" -> 1 [] kind = "anchor" -> 2 [] kind = "link" -> 3
    [] kind = "include" -> 4

\* line i comes before line j: an earlier form, or the same form and
\* earlier in the text
Before(content, i, j) ==
  \/ FormRank(content[i].kind) < FormRank(content[j].kind)
  \/ FormRank(content[i].kind) = FormRank(content[j].kind) /\ i < j

\* the place of line i among the references returned
PlaceOf(content, i) ==
  1 + Cardinality({j \in RefLines(content) : Before(content, j, i)})

(* C15: findAsciidocLinks returns the references grouped by form, all xref *)
(* macros, then all double-angle-bracket references, then all link macros, *)
(* then all include directives, each group in text order; parseFile        *)
(* appends the edges of the file in that same order.                       *)
C15_GroupedByFormInTextOrder ==
  (arg.fn = "findAsciidocLinks" /\ ret.returned) =>
    /\ Len(ret.value) = Cardinality(RefLines(arg.content))
    /\ \A i \in RefLines(arg.content) :
         LET r == ret.value[PlaceOf(arg.content, i)]
         IN /\ r.target = arg.content[i].target
            /\ (r.type = "link") = (arg.content[i].kind # "include")
    /\ (last.op = "appended") =>
         /\ Len(graph.edges) = Len(ret.value)
         /\ \A k \in 1..Len(ret.value) :
              \E name \in {"a", "b"} :
                /\ ret.value[k].target = Rel(name)
                /\ graph.edges[k] = Edge("a", name, ret.value[k].type)

\* an include, a link macro and a double-angle-bracket reference, in that
\* order in the text, came back and were appended in the reverse order
C15_Witness ==
  /\ arg.fn = "findAsciidocLinks"
  /\ arg.content = <<Ref("include", Rel("b"), <<"tag", "=", "x">>),
                     Ref("link", Rel("a"), <<>>), Ref("anchor", Rel("b"), <<>>)>>
  /\ last.op = "appended"
  /\ graph.edges = <<Edge("a", "b", "link"), Edge("a", "a", "link"),
                     Edge("a", "b", "include-partial")>>

(* C16: re-parsing a path that already has a node, a title present,        *)
(* updates only the label of that node: the number of nodes, their order,  *)
(* the id and the path of every node, and the label of every other node    *)
(* are unchanged.                                                          *)
C16_ReparseUpdatesLabelOnly ==
  [][(ParsedStep /\ Titled(last'.content) /\ last'.had) =>
       /\ Len(graph'.nodes) = Len(graph.nodes)
       /\ \A i \in 1..Len(graph.nodes) :
            /\ graph'.nodes[i].id = graph.nodes[i].id
            /\ graph'.nodes[i].path = graph.nodes[i].path
            /\ graph.nodes[i].path # last'.path =>
                 graph'.nodes[i].label = graph.nodes[i].label]_vars

\* b.adoc, the first of two nodes, was parsed again with another title
C16_Witness ==
  /\ last.op = "parsed" /\ last.had /\ ~last.rep
  /\ last.path = PathB /\ last.content = DocBC
  /\ Len(graph.nodes) = 2
  /\ graph.nodes[1].path = PathB /\ graph.nodes[1].id = id(PathB)
  /\ graph.nodes[1].label = findAsciidocTitle(DocBC, 1)
  /\ graph.nodes[2].label = findAsciidocTitle(DocAB, 1)
  /\ graph.nodes[2].label # graph.nodes[1].label

(* C17: in every state reachable by parseFile calls over files with        *)
(* pairwise distinct paths, no two nodes of graph.nodes have the same id.  *)
C17_NodeIdsUnique ==
  \A i, j \in 1..Len(graph.nodes) :
    graph.nodes[i].id = graph.nodes[j].id => i = j

\* the graph after the files are parsed one after another in some fixed
\* order, from graph g
RECURSIVE OneByOne(_, _)
OneByOne(g, files) ==
  IF files = {} THEN g
  ELSE LET f == CHOOSE x \in files : TRUE
       IN OneByOne(applyParse(g, f, fs[f], 1), files \ {f})

(* C18: for a directory scan over a fixed set of files with pairwise       *)
(* distinct node ids whose reads all succeed, the final graph does not     *)
(* depend on the order in which the reads complete: the same set of nodes  *)
(* (id, path, label) and the same multiset of edges, whatever the order.   *)
C18_ScanOrderIndependent ==
  (dir.status = "resolved") =>
    LET one == OneByOne(serial, eligible(dir.files))
    IN /\ Range(graph.nodes) = Range(one.nodes)
       /\ Len(graph.nodes) = Len(one.nodes)
       /\ SeqBag(graph.edges) = SeqBag(one.edges)

\* a scan of two files with references resolved with its nodes and edges in
\* another sequence than the fixed order gives
C18_Witness ==
  /\ dir.status = "resolved"
  /\ Cardinality(dir.applied) = 2
  /\ LET one == OneByOne(serial, eligible(dir.files))
     IN /\ graph.nodes # one.nodes
        /\ graph.edges # one.edges
        /\ Len(graph.edges) >= 4

\* this step completes the second of two parses of one path that were in
\* flight together, nothing else having settled in between
SecondOfTwo ==
  /\ ParsedStep
  /\ last.op = "parsed" /\ twin
  /\ last'.path = last.path

OneNodeAtMost(nodes, p) ==
  Cardinality({i \in 1..Len(nodes) : nodes[i].path = p}) <= 1

(* C19 as claimed: when two parseFile operations for the same path are in  *)
(* flight at once, after both complete the graph holds at most one node    *)
(* for the path and the edges with its source id are exactly the           *)
(* references of the version whose read completed last, never a mixture.   *)
C19_LastVersionWins ==
  [][SecondOfTwo =>
       /\ OneNodeAtMost(graph'.nodes, last'.path)
       /\ EdgesFrom(graph'.edges, id(last'.path))
            = RefEdges(last'.path, last'.content)]_vars

(* C19 amended: after both complete the graph holds at most one node for   *)
(* the path; when the version whose read completed last has a title, the   *)
(* edges with its source id are exactly the references of that version;    *)
(* when it has none, no node is left for the path and the edges are left   *)
(* as the first completion left them.                                      *)
C19_LastTitledVersionWins ==
  [][SecondOfTwo =>
       /\ OneNodeAtMost(graph'.nodes, last'.path)
       /\ IF Titled(last'.content)
          THEN EdgesFrom(graph'.edges, id(last'.path))
                 = RefEdges(last'.path, last'.content)
          ELSE /\ graph'.edges = graph.edges
               /\ \A n \in Range(graph'.nodes) : n.path # last'.path]_vars

\* two parses of a.adoc were in flight together; the first completed with
\* one version, the second with {b, c, c, c}: one node, the edges of the
\* second
C19_Witness ==
  /\ last.op = "parsed" /\ twin /\ ~last.rep
  /\ last.path = PathA /\ last.content = DocBC
  /\ ops = EmptyBag
  /\ Cardinality({i \in 1..Len(graph.nodes) : graph.nodes[i].path = PathA}) = 1
  /\ graph.edges
       = <<Edge("a", "b", "link"), Edge("a", "c", "link"), Edge("a", "c", "link"),
           Edge("a", "c", "include-partial")>>

====
